---- MODULE Spec2Model ----
(***************************************************************************)
(* A model of cratermaker's configuration resolver (set_properties,        *)
(* create_catalogue, Material, Target) and of the Simulation orchestrator  *)
(* (apply_noise, emplace_crater).                                          *)
(*                                                                         *)
(* Python values are modelled as follows.  None is the string "None".      *)
(* Attribute values set through set_properties are strings ("2.30",        *)
(* "Moon"); an object is the function from the names in its __dict__ to    *)
(* their values; a dict is a function from its keys; a keyword-argument    *)
(* dict is a function from the keywords that were passed.  A catalogue or  *)
(* a file that is passed by reference is named by an identifier and looked *)
(* up with Catalogue(id) / FileContent(id).                                *)
(***************************************************************************)
EXTENDS Integers, Sequences, FiniteSets, TLC

None == "None"

\* A keyword that the caller did not pass.
Absent == "<absent>"

EmptyDict == [k \in {} |-> None]

(***************************************************************************)
(* create_catalogue                                                        *)
(***************************************************************************)

\* dict(zip(header, tab)): zip stops at the shorter sequence, a repeated key
\* keeps its last value.
ZipDict(header, tab) ==
    LET n == IF Len(header) <= Len(tab) THEN Len(header) ELSE Len(tab)
        last(c) == CHOOSE j \in 1..n :
                       header[j] = c /\ \A i \in 1..n : header[i] = c => i <= j
    IN  [c \in {header[j] : j \in 1..n} |-> tab[last(c)]]

\* del d[k]
DelKey(d, k) == [c \in DOMAIN d \ {k} |-> d[c]]

\* The dict comprehension keyed by tab[0] (a repeated name keeps its last row),
\* then the first header column removed from every entry.
create_catalogue(header, values) ==
    LET last(k) == CHOOSE j \in DOMAIN values :
                       values[j][1] = k
                       /\ \A i \in DOMAIN values : values[i][1] = k => i <= j
        catalogue == [k \in {values[i][1] : i \in DOMAIN values} |->
                         ZipDict(header, values[last(k)])]
    IN  [k \in DOMAIN catalogue |-> DelKey(catalogue[k], header[1])]

\* The catalogue of the tests.
mock_properties == <<"name", "property1", "property2">>

mock_values == << <<"foo", "1.00", "2.00">>, <<"bar", "3.00", "4.00">> >>

\* Material.__post_init__'s table (Richardson 2009, Table 1).
material_properties == <<"name", "K1", "mu", "Ybar", "density">>

material_values ==
    << <<"Water",     "2.30", "0.55", "0.0",  "1000.0">>,
       <<"Sand",      "0.24", "0.41", "0.0",  "1750.0">>,
       <<"Dry Soil",  "0.24", "0.41", "0.18", "1500.0">>,
       <<"Wet Soil",  "0.20", "0.55", "1.14", "2000.0">>,
       <<"Soft Rock", "0.20", "0.55", "7.60", "2250.0">>,
       <<"Hard Rock", "0.20", "0.55", "18.0", "2500.0">>,
       <<"Ice",       "2.30", "0.39", "0.0",  "900.0">> >>

\* Target.__post_init__'s table.
body_properties == <<"name", "radius", "gravity", "material_name">>

body_values ==
    << <<"Mercury", "2440.0e3",  "0.377*gEarth",  "Soft Rock">>,
       <<"Venus",   "6051.84e3", "0.905*gEarth",  "Hard Rock">>,
       <<"Earth",   "6371.01e3", "1.0*gEarth",    "Wet Soil">>,
       <<"Moon",    "1737.53e3", "0.1657*gEarth", "Soft Rock">>,
       <<"Mars",    "3389.92e3", "0.379*gEarth",  "Soft Rock">>,
       <<"Ceres",   "469.7e3",   "0.29*gEarth",   "Ice">>,
       <<"Vesta",   "262.7e3",   "0.25*gEarth",   "Soft Rock">> >>

\* The catalogue objects that calls pass by reference.
Catalogue(id) ==
    CASE id = "mock_catalogue"     -> create_catalogue(mock_properties, mock_values)
      [] id = "material_catalogue" -> create_catalogue(material_properties, material_values)
      [] id = "body_catalogue"     -> create_catalogue(body_properties, body_values)

(***************************************************************************)
(* set_properties                                                          *)
(***************************************************************************)

\* obj.__class__.__name__.lower()
Lower(cls) ==
    CASE cls = "Mock"       -> "mock"
      [] cls = "Material"   -> "material"
      [] cls = "Target"     -> "target"
      [] cls = "Simulation" -> "simulation"

\* json.load of the files that calls name: the file of the tests, whose
\* sections are entry names, and a file with a section for the class Mock.
FileContent(filename) ==
    CASE filename = "dummy.json" ->
             [qux  |-> [property1 |-> "7.0", property2 |-> "8.0"],
              quux |-> [property1 |-> "9.0", property2 |-> "10.0"]]
      [] filename = "mock.json" ->
             [mock |-> [property1 |-> "7.0", property2 |-> "8.0"]]

\* for key, value in kwargs.items(): if hasattr(obj, key): setattr(obj, key, value)
set_properties_from_arguments(obj, kwargs) ==
    [a \in DOMAIN obj |-> IF a \in DOMAIN kwargs THEN kwargs[a] ELSE obj[a]]

\* properties = catalogue.get(key); if properties: ...
set_properties_from_catalogue(obj, catalogue, key) ==
    IF key \in DOMAIN catalogue /\ DOMAIN catalogue[key] # {}
    THEN set_properties_from_arguments(obj, catalogue[key])
    ELSE obj

set_properties_from_file(cls, obj, filename) ==
    LET properties == FileContent(filename)
        n == Lower(cls)
    IN  IF n \in DOMAIN properties
        THEN set_properties_from_arguments(obj, properties[n])
        ELSE obj

\* A variant of the check that raises only when no property at all is set.
HasUnset_AllUnset(obj) == \A a \in DOMAIN obj : obj[a] = None

\* The check for unset properties at the end of set_properties.
HasUnset(obj) == \E a \in DOMAIN obj : obj[a] = None

\* if 'filename' in kwargs: set_properties_from_file(obj, filename=kwargs['filename'])
FileLayer(cls, obj, kwargs) ==
    IF "filename" \in DOMAIN kwargs
    THEN set_properties_from_file(cls, obj, kwargs["filename"])
    ELSE obj

\* if 'catalogue' in kwargs and 'key' in kwargs: set_properties_from_catalogue(...)
CatalogueLayer(obj, kwargs) ==
    IF "catalogue" \in DOMAIN kwargs /\ "key" \in DOMAIN kwargs
    THEN set_properties_from_catalogue(obj, Catalogue(kwargs["catalogue"]), kwargs["key"])
    ELSE obj

\* The end of set_properties: the object as the call leaves it, and the
\* exception it raises ("none" when it returns).
CheckUnset(obj) ==
    [obj |-> obj, raised |-> IF HasUnset(obj) THEN "ValueError" ELSE "none"]

\* A variant of set_properties that applies the keyword arguments before the
\* catalogue entry.
set_properties_KwargsBeforeCatalogue(cls, obj, kwargs) ==
    CheckUnset(CatalogueLayer(
        set_properties_from_arguments(FileLayer(cls, obj, kwargs), kwargs), kwargs))

\* set_properties(obj, **kwargs): the file, then the catalogue entry, then the
\* keyword arguments, then the check.
set_properties(cls, obj, kwargs) ==
    CheckUnset(set_properties_from_arguments(
        CatalogueLayer(FileLayer(cls, obj, kwargs), kwargs), kwargs))

(***************************************************************************)
(* Material, Target and Simulation construction                            *)
(***************************************************************************)

\* if self.name: (a name that is None or empty is false)
Truthy(v) == v # None /\ v # ""

\* An instance that does not exist (the constructor raised).
NoObject == EmptyDict

\* A constructor that raised.
Raised(exc) == [obj |-> NoObject, material |-> NoObject, raised |-> exc]

\* What a constructor makes of set_properties' result r: the instance, holding
\* material, or the exception.
Constructed(r, material) ==
    IF r.raised # "none"
    THEN Raised(r.raised)
    ELSE [obj |-> r.obj, material |-> material, raised |-> "none"]

\* Material.__post_init__ on the instance the dataclass __init__ made:
\* self.catalogue is built, then the properties are resolved with the name as
\* catalogue key; without a name it raises.
MaterialPostInit(self) ==
    IF Truthy(self["name"])
    THEN Constructed(set_properties("Material", self,
                                    [catalogue |-> self["catalogue"],
                                     key |-> self["name"]]),
                     NoObject)
    ELSE Raised("ValueError")

\* Material(name, K1, mu, Ybar, density)
NewMaterial(name, K1, mu, Ybar, density) ==
    MaterialPostInit([name |-> name, K1 |-> K1, mu |-> mu, Ybar |-> Ybar,
                      density |-> density, catalogue |-> "material_catalogue"])

\* The attribute Target.material holds a reference to a Material instance; the
\* instance itself is kept beside the Target's other attributes.
MaterialRef == "<Material>"

\* How an argument that may be an instance is passed: not at all, None, a
\* name, an instance (obj: its attributes; for a Target, material: the
\* Material it refers to), or a value of a wrong type.
ArgAbsent == [kind |-> "absent"]

ArgNone == [kind |-> "none"]

ArgName(name) == [kind |-> "str", name |-> name]

ArgMaterial(obj) == [kind |-> "instance", obj |-> obj]

ArgTarget(obj, material) == [kind |-> "instance", obj |-> obj, material |-> material]

ArgWrongType == [kind |-> "int"]

\* Target.__post_init__ on the instance the dataclass __init__ made, whose
\* attribute material refers to the instance material.
TargetPostInit(self, material) ==
    IF Truthy(self["name"])
    THEN Constructed(set_properties("Target", self,
                                    [catalogue |-> self["catalogue"],
                                     key |-> self["name"]]),
                     material)
    ELSE Raised("ValueError")

\* The dataclass __init__ of Target, given the Material instance m that the
\* material argument or the default factory yields.
TargetInit(name, radius, gravity, material, m) ==
    IF material.kind = "absent" /\ m.raised # "none"
    THEN Raised(m.raised)
    ELSE TargetPostInit([name |-> name, radius |-> radius, gravity |-> gravity,
                         material |-> IF material.kind = "none"
                                      THEN None ELSE MaterialRef,
                         catalogue |-> "body_catalogue"],
                        m.obj)

\* Target(name, radius, gravity, material): material is a Material instance,
\* None, or not passed, in which case the default factory Material() runs,
\* which raises for want of a name.
NewTarget(name, radius, gravity, material) ==
    TargetInit(name, radius, gravity, material,
               IF material.kind = "absent"
               THEN NewMaterial(None, None, None, None, None)
               ELSE IF material.kind = "instance"
                    THEN [obj |-> material.obj, raised |-> "none"]
                    ELSE [obj |-> NoObject, raised |-> "none"])

\* try: ... except: raise ValueError(...)
TryValueError(r) == IF r.raised # "none" THEN Raised("ValueError") ELSE r

\* The first block of Simulation.__init__: the material argument resolved to
\* a Material instance, or left None.
ResolveMaterial(material) ==
    IF material.kind = "none"
    THEN [obj |-> NoObject, material |-> NoObject, raised |-> "none"]
    ELSE IF material.kind = "str"
         THEN TryValueError(NewMaterial(material.name, None, None, None, None))
         ELSE IF material.kind # "instance"
              THEN Raised("TypeError")
              ELSE [obj |-> material.obj, material |-> NoObject, raised |-> "none"]

\* Target("Moon", ...) when no target is passed (outside any try), else
\* Target(target, ...) inside try/except.
TargetFromName(target, t) == IF target.kind = "none" THEN t ELSE TryValueError(t)

\* The second block of Simulation.__init__: the target argument resolved to a
\* Target instance, given the material instance m (NoObject: none).
ResolveTarget(target, m) ==
    IF target.kind \in {"none", "str"}
    THEN TargetFromName(target,
             NewTarget(IF target.kind = "none" THEN "Moon" ELSE target.name,
                       None, None,
                       IF m = NoObject THEN ArgAbsent ELSE ArgMaterial(m)))
    ELSE IF target.kind = "instance"
         THEN [obj |-> target.obj,
               material |-> IF m = NoObject THEN target.material ELSE m,
               raised |-> "none"]
         ELSE Raised("TypeError")

\* The rest of Simulation.__init__ once the material argument is resolved to m.
SimulationWithMaterial(target, m) ==
    IF m.raised # "none" THEN Raised(m.raised) ELSE ResolveTarget(target, m.obj)

\* Simulation.__init__(target, material): self.target and its material, or
\* the exception raised.
NewSimulation(target, material) ==
    SimulationWithMaterial(target, ResolveMaterial(material))

(***************************************************************************)
(* Numbers.  Lengths are integers (metres); a quotient is the exact        *)
(* fraction <<numerator, denominator>> in lowest terms, so that H/R is H   *)
(* only when R divides it that way, and never by convention.               *)
(***************************************************************************)

RECURSIVE GCD(_, _)
GCD(a, b) == IF b = 0 THEN a ELSE GCD(b, a % b)

Abs(n) == IF n < 0 THEN -n ELSE n

\* n / d, for d > 0
Frac(n, d) == <<n \div GCD(Abs(n), d), d \div GCD(Abs(n), d)>>

\* The number n as a fraction.
Num(n) == <<n, 1>>

\* p * q
FMul(p, q) == Frac(p[1] * q[1], p[2] * q[2])

\* p / q, for q > 0
FDiv(p, q) == Frac(p[1] * q[2], p[2] * q[1])

(***************************************************************************)
(* Simulation.apply_noise                                                  *)
(***************************************************************************)

\* The defaults of apply_noise's parameters.
DefaultNoiseWidth == 1000000

DefaultNoiseHeight == 20000

DefaultNumOctaves == 12

\* The models apply_noise knows.
NoiseModels == {"turbulence", "billowed", "ridged", "plaw", "swiss", "jordan"}

\* d[k] = v
Put(d, k, v) == [x \in DOMAIN d \cup {k} |-> IF x = k THEN v ELSE d[x]]

\* A variant that assigns the default over the caller's value.
SetDefault_Overrides(kwargs, k, v) == Put(kwargs, k, v)

\* kwargs.setdefault(k, v)
SetDefault(kwargs, k, v) == IF k \in DOMAIN kwargs THEN kwargs ELSE Put(kwargs, k, v)

\* kwargs.pop("num_octaves", 12)
NumOctaves(kwargs) ==
    IF "num_octaves" \in DOMAIN kwargs THEN kwargs["num_octaves"] ELSE DefaultNumOctaves

\* self.rng.uniform(0.0, scale, size=(num_octaves, 3)): the next 3 * num_octaves
\* values of the generator's stream, scaled to [0, scale).  The generator's
\* state is the number of values drawn so far.
Uniform(rng, scale, num_octaves) ==
    [src |-> "rng", pos |-> rng, n |-> num_octaves, high |-> scale]

\* An anchor array that the caller made.
UserAnchor(id) == [src |-> "user", pos |-> id, n |-> 0, high |-> Num(0)]

\* A variant that uses the drawn anchor whatever the caller passed.
PopAnchor_AlwaysDrawn(kwargs, drawn) == drawn

\* kwargs.pop("anchor", self.rng.uniform(...)): the default is an argument of
\* pop, so the draw is made whether or not the caller passed an anchor.
PopAnchor(kwargs, drawn) ==
    IF "anchor" \in DOMAIN kwargs THEN kwargs["anchor"] ELSE drawn

\* The generator after apply_noise's draw.
RngAfterNoise(rng, kwargs) == rng + 3 * NumOctaves(kwargs)

\* if model == "turbulence" or "billowed" or "plaw" or "ridged": ...
HeightDefaults(model, noise_height, kwargs) ==
    IF model \in {"turbulence", "billowed", "plaw", "ridged"}
    THEN SetDefault(SetDefault(SetDefault(kwargs, "noise_height", Num(noise_height)),
                               "freq", Num(2)),
                    "pers", Frac(1, 2))
    ELSE kwargs

\* if model == "plaw": ...
PlawDefaults(model, kwargs) ==
    IF model = "plaw" THEN SetDefault(kwargs, "slope", Num(2)) ELSE kwargs

\* if model == "swiss" or model == "jordan": ...
SwissDefaults(model, kwargs) ==
    IF model \in {"swiss", "jordan"}
    THEN SetDefault(SetDefault(SetDefault(kwargs, "lacunarity", Frac(192, 100)),
                               "gain", Frac(1, 2)),
                    "warp", Frac(35, 100))
    ELSE kwargs

\* if model == "jordan": ...
JordanDefaults(model, kwargs) ==
    IF model = "jordan"
    THEN SetDefault(SetDefault(SetDefault(SetDefault(SetDefault(kwargs,
             "gain0", Num(70)), "warp0", Frac(4, 10)), "damp0", Num(1)),
             "damp", Frac(8, 10)), "damp_scale", Frac(1, 100))
    ELSE kwargs

\* A variant that passes noise_height on in metres.
NormalizeHeight_Missing(kwargs, radius) == kwargs

\* if "noise_height" in kwargs: kwargs["noise_height"] /= self.target.radius
NormalizeHeight(kwargs, radius) ==
    IF "noise_height" \in DOMAIN kwargs
    THEN [kwargs EXCEPT !["noise_height"] = FDiv(@, Num(radius))]
    ELSE kwargs

\* The keyword dict util_perlin receives: the caller's keywords without
\* num_octaves and anchor, the model's defaults, the height normalized.
EvaluatorKwargs(model, noise_height, kwargs, radius) ==
    NormalizeHeight(
        JordanDefaults(model,
            SwissDefaults(model,
                PlawDefaults(model,
                    HeightDefaults(model, noise_height,
                                   DelKey(DelKey(kwargs, "num_octaves"), "anchor"))))),
        radius)

\* Everything the closure noise_function passes to util_perlin besides the
\* coordinates.
EvaluatorCall(model, noise_width, noise_height, kwargs, radius, rng) ==
    [model       |-> model,
     num_octaves |-> NumOctaves(kwargs),
     anchor      |-> PopAnchor(kwargs, Uniform(rng, Frac(radius, noise_width),
                                               NumOctaves(kwargs))),
     kwargs      |-> EvaluatorKwargs(model, noise_height, kwargs, radius),
     scale       |-> Frac(radius, noise_width)]

\* A number that stands for a fraction in the evaluator's arithmetic.
Code(q) == q[1] + 2 * q[2]

ModelCode(model) ==
    CASE model = "turbulence" -> 1 [] model = "billowed" -> 2 [] model = "ridged" -> 3
      [] model = "plaw" -> 4 [] model = "swiss" -> 5 [] model = "jordan" -> 6

AnchorCode(anchor) ==
    (IF anchor.src = "rng" THEN 1 ELSE 2) + 2 * anchor.pos + (anchor.pos \div 7)
    + anchor.n + Code(anchor.high)

RECURSIVE KwargsCode(_, _)
KwargsCode(kwargs, keys) ==
    IF keys = {}
    THEN 0
    ELSE LET k == CHOOSE x \in keys : TRUE
         IN  Code(kwargs[k]) + KwargsCode(kwargs, keys \ {k})

\* util_perlin(model, x, y, z, num_octaves, anchor, **kwargs): the Fortran
\* evaluator, a function of its arguments alone, here with values -1, 0, 1.
util_perlin(model, x, y, z, num_octaves, anchor, kwargs) ==
    ((ModelCode(model) + Code(x) + 2 * Code(y) + 3 * Code(z) + num_octaves
      + AnchorCode(anchor) + KwargsCode(kwargs, DOMAIN kwargs)) % 3) - 1

\* ds_norm: a coordinate times scale over the target radius.
Normalized(c, scale, radius) == FDiv(FMul(Num(c), scale), Num(radius))

\* np.vectorize(noise_function)(ds_norm x, y, z) at node n of the grid.
NoiseAt(ev, xyz, radius) ==
    util_perlin(ev.model,
                Normalized(xyz[1], ev.scale, radius),
                Normalized(xyz[2], ev.scale, radius),
                Normalized(xyz[3], ev.scale, radius),
                ev.num_octaves, ev.anchor, ev.kwargs)

\* noise * self.target.radius, per node
NoiseDelta(ev, grid, radius) ==
    [n \in DOMAIN grid |-> NoiseAt(ev, grid[n], radius) * radius]

\* A variant that stores the noise instead of adding it.
AddNoise_Overwrites(elevation, delta) == delta

\* self.surf['elevation'] += noise * self.target.radius
AddNoise(elevation, delta) == [n \in DOMAIN elevation |-> elevation[n] + delta[n]]

(***************************************************************************)
(* The surface grid, the Crater and Projectile records and the scaling law *)
(* (collaborators of Simulation)                                           *)
(***************************************************************************)

\* The number of nodes of the grid, which lie on a great circle.
NumNodes == 2

Nodes == 1..NumNodes

\* node_x, node_y, node_z of the grid of a target of the given radius.
GridOf(radius) == [n \in Nodes |-> <<radius * n, radius * (NumNodes + 1 - n), 0>>]

\* The steps between two nodes along the shorter way round the circle.
Separation(n, location) ==
    IF Abs(n - location) <= NumNodes - Abs(n - location)
    THEN Abs(n - location)
    ELSE NumNodes - Abs(n - location)

\* Surface.get_cell_distance(location, radius): great-circle distance of every
\* node from the location.
get_cell_distance(location, radius) ==
    [n \in Nodes |-> radius * Separation(n, location)]

\* Surface.get_cell_initial_bearing(location): the bearing of every node from
\* the location, in steps from 0 to a full turn (excluded).
get_cell_initial_bearing(location) ==
    [n \in Nodes |-> (n - location) % NumNodes]

RECURSIVE SumOf(_)
SumOf(S) == IF S = {} THEN 0 ELSE LET x == CHOOSE y \in S : TRUE IN x + SumOf(S \ {x})

\* The nodes within the crater's footprint (distance in steps <= radius).
Footprint(location, radius) ==
    {n \in Nodes : Separation(n, location) * radius[2] <= radius[1]}

\* Surface.get_average_surface(location, radius): the average over the nodes
\* in the footprint.
get_average_surface(location, radius) ==
    Frac(SumOf(Footprint(location, radius)), Cardinality(Footprint(location, radius)))

\* A vector that has not been computed.
NoVector == <<0, 0>>

\* The location of a Crater or Projectile: the keyword if passed, else drawn
\* from the generator.
LocationOf(kwargs, rng) ==
    IF "location" \in DOMAIN kwargs THEN kwargs["location"] ELSE (rng % NumNodes) + 1

\* The generator after a Crater or Projectile is made: two values are drawn
\* for a location that was not passed.
RngAfterBody(kwargs, rng) == IF "location" \in DOMAIN kwargs THEN rng ELSE rng + 2

\* Crater(target=, rng=, **kwargs)
NewCrater(kwargs, rng) ==
    [diameter |-> Num(kwargs["diameter"]),
     radius   |-> Frac(kwargs["diameter"], 2),
     location |-> LocationOf(kwargs, rng),
     average_surface_normal_vector |-> NoVector]

\* Projectile(target=, rng=, **kwargs)
NewProjectile(kwargs, rng) ==
    [diameter |-> Num(kwargs["diameter"]),
     radius   |-> Frac(kwargs["diameter"], 2),
     location |-> LocationOf(kwargs, rng)]

\* scale.crater_to_projectile(crater): the projectile a third of the size.
crater_to_projectile(crater) ==
    [diameter |-> FDiv(crater.diameter, Num(3)),
     radius   |-> FDiv(crater.radius, Num(3)),
     location |-> crater.location]

\* scale.projectile_to_crater(projectile): the inverse.
projectile_to_crater(projectile) ==
    [diameter |-> FMul(projectile.diameter, Num(3)),
     radius   |-> FMul(projectile.radius, Num(3)),
     location |-> projectile.location,
     average_surface_normal_vector |-> NoVector]

\* A diameter outside the scaling law's domain: the constructor raises.
InvalidBody(kwargs) == kwargs["diameter"] <= 0

(***************************************************************************)
(* Simulation.generate_crater, generate_projectile, emplace_crater         *)
(***************************************************************************)

\* generate_crater(**kwargs): (crater, projectile)
generate_crater(kwargs, rng) ==
    [crater     |-> NewCrater(kwargs, rng),
     projectile |-> crater_to_projectile(NewCrater(kwargs, rng))]

\* generate_projectile(**kwargs): (projectile, crater)
generate_projectile(kwargs, rng) ==
    [projectile |-> NewProjectile(kwargs, rng),
     crater     |-> projectile_to_crater(NewProjectile(kwargs, rng))]

\* A variant that takes the keywords for a crater whatever the flag.
GeneratePair_IgnoresFlag(from_projectile, kwargs, rng) == generate_crater(kwargs, rng)

\* The first statement of emplace_crater: self.crater and self.projectile.
GeneratePair(from_projectile, kwargs, rng) ==
    IF from_projectile
    THEN generate_projectile(kwargs, rng)
    ELSE generate_crater(kwargs, rng)

\* The rest of emplace_crater, given the pair: the grid fields and the
\* crater's average normal.
Emplace(pair, radius) ==
    [crater_distance |-> get_cell_distance(pair.crater.location, radius),
     crater_bearing  |-> get_cell_initial_bearing(pair.crater.location),
     crater |-> [pair.crater EXCEPT !.average_surface_normal_vector =
                    get_average_surface(pair.crater.location, pair.crater.radius)],
     projectile |-> pair.projectile]

\* emplace_crater(from_projectile, **kwargs) when nothing raises.
emplace_crater(from_projectile, kwargs, rng, radius) ==
    Emplace(GeneratePair(from_projectile, kwargs, rng), radius)

(***************************************************************************)
(* State                                                                   *)
(***************************************************************************)
VARIABLES
    pObj,       \* resolver: the object set_properties is called on
    pArgs,      \* resolver: the keyword arguments of the last call
    pResult,    \* resolver: "not called", "returned" or the exception raised
    cMaterial,  \* construction: the Material instance the caller holds
    cTarget,    \* construction: the Target instance the caller holds
    cTargetMat, \* construction: the Material instance cTarget.material refers to
    cSimTarget, \* construction: self.target of the Simulation the caller holds
    cSimMat,    \* construction: self.target.material of that Simulation
    cCall,      \* construction: the last constructor call and its arguments
    cResult,    \* construction: "not called", "constructed" or the exception
    radius,          \* simulation: self.target.radius
    grid,            \* simulation: node_x, node_y, node_z of self.surf
    elevation,       \* simulation: self.surf['elevation']
    crater_distance, \* simulation: self.surf['crater_distance']
    crater_bearing,  \* simulation: self.surf['crater_bearing']
    crater,          \* simulation: self.crater
    projectile,      \* simulation: self.projectile
    rng,             \* simulation: self.rng, as the number of values drawn
    nOps,            \* simulation: the number of operations called so far
    op,              \* simulation: the last operation, its arguments and effect
    hist,            \* simulation: the first elevation and the sum of noise deltas
    memo             \* simulation: an earlier call that is remembered, and its effect

pvars == <<pObj, pArgs, pResult>>

cvars == <<cMaterial, cTarget, cTargetMat, cSimTarget, cSimMat, cCall, cResult>>

svars == <<radius, grid, elevation, crater_distance, crater_bearing, crater,
           projectile, rng, nOps, op, hist, memo>>

vars == <<pvars, cvars, svars>>

\* Bounds of the simulation model.
MaxRadius == 2

MaxOps == 3

MaxNoiseCalls == 1

\* The Simulation after __init__: the surface reset to zero elevation or
\* holding an elevation saved before, no crater or projectile, nothing drawn.
InitSim ==
    /\ radius \in 1..MaxRadius
    /\ grid = GridOf(radius)
    /\ elevation \in {[n \in Nodes |-> 0], [n \in Nodes |-> n]}
    /\ crater_distance = EmptyDict
    /\ crater_bearing = EmptyDict
    /\ crater = NoObject
    /\ projectile = NoObject
    /\ rng = 0
    /\ nOps = 0
    /\ op = [kind |-> "none"]
    /\ hist = [first |-> elevation, sum |-> [n \in Nodes |-> 0]]
    /\ memo = [set |-> FALSE]

\* No Simulation is in use.
IdleSim ==
    /\ radius = 0
    /\ grid = EmptyDict
    /\ elevation = EmptyDict
    /\ crater_distance = EmptyDict
    /\ crater_bearing = EmptyDict
    /\ crater = NoObject
    /\ projectile = NoObject
    /\ rng = 0
    /\ nOps = 0
    /\ op = [kind |-> "none"]
    /\ hist = [first |-> EmptyDict, sum |-> EmptyDict]
    /\ memo = [set |-> FALSE]

\* No constructor has run.
InitCtor ==
    /\ cMaterial = NoObject
    /\ cTarget = NoObject
    /\ cTargetMat = NoObject
    /\ cSimTarget = NoObject
    /\ cSimMat = NoObject
    /\ cCall = [cls |-> "none"]
    /\ cResult = "not called"

\* set_properties has not been called outside a constructor.
InitResolver ==
    /\ pObj = EmptyDict
    /\ pArgs = EmptyDict
    /\ pResult = "not called"

(***************************************************************************)
(* The resolver on its own: set_properties called, any number of times, on *)
(* an object of class Mock with the keyword arguments of the tests.        *)
(***************************************************************************)

\* The keyword dict of a call: the keywords that were passed.
Kwargs(full) == [k \in {x \in DOMAIN full : full[x] # Absent} |-> full[k]]

\* The __dict__ of the objects: all three properties, or property2 missing
\* (hasattr(obj, "property2") is false).
ObjShapes == {{"name", "property1", "property2"}, {"name", "property1"}}

InitProps ==
    /\ \E shape \in ObjShapes : pObj = [a \in shape |-> None]
    /\ pArgs = EmptyDict
    /\ pResult = "not called"
    /\ InitCtor
    /\ IdleSim

CallSetProperties ==
    \E f  \in {Absent, "dummy.json", "mock.json"},
       c  \in {Absent, "mock_catalogue"},
       k  \in {Absent, "foo", "baz"},
       n  \in {Absent, "foo", "bar"},
       p1 \in {Absent, "5.0"},
       p2 \in {Absent, "42.0", None} :
        LET kwargs == Kwargs([filename |-> f, catalogue |-> c, key |-> k,
                              name |-> n, property1 |-> p1, property2 |-> p2])
            r == set_properties("Mock", pObj, kwargs)
        IN  /\ pObj' = r.obj
            /\ pArgs' = kwargs
            /\ pResult' = IF r.raised = "none" THEN "returned" ELSE r.raised
            /\ UNCHANGED <<cvars, svars>>

NextProps == CallSetProperties

SpecProps == InitProps /\ [][NextProps]_vars

(***************************************************************************)
(* Claims about the resolver                                               *)
(***************************************************************************)

\* What the JSON file of the last call supplies to an object of class Mock.
FileSupplies ==
    IF "filename" \in DOMAIN pArgs
       /\ "mock" \in DOMAIN FileContent(pArgs["filename"])
    THEN FileContent(pArgs["filename"])["mock"]
    ELSE EmptyDict

\* What the catalogue entry selected by the last call supplies.
CatalogueSupplies ==
    IF {"catalogue", "key"} \subseteq DOMAIN pArgs
       /\ pArgs["key"] \in DOMAIN Catalogue(pArgs["catalogue"])
    THEN Catalogue(pArgs["catalogue"])[pArgs["key"]]
    ELSE EmptyDict

\* The number of sources of the last call that supply property p.
NumSources(p) ==
    (IF p \in DOMAIN pArgs THEN 1 ELSE 0)
    + (IF p \in DOMAIN CatalogueSupplies THEN 1 ELSE 0)
    + (IF p \in DOMAIN FileSupplies THEN 1 ELSE 0)

C2_UnsetRaises ==
    pResult # "not called" =>
        \A a \in DOMAIN pObj : pObj[a] = None => pResult = "ValueError"

\* C2 witness: a call that set property1 and left the name unset, and raised.
C2_Witness ==
    /\ pResult = "ValueError"
    /\ pObj["property1"] = "5.0"
    /\ pObj["name"] = None

\* C3: after set_properties(obj, catalogue=c, name=n, p=None), with n an entry
\* of c, property p holds the entry's value and the call returned.
C3_NoneOverrideIgnored ==
    \A p \in {"property1", "property2"} :
        ( /\ pResult # "not called"
          /\ DOMAIN pArgs = {"catalogue", "name", p}
          /\ pArgs["name"] \in DOMAIN Catalogue(pArgs["catalogue"])
          /\ pArgs[p] = None
          /\ p \in DOMAIN pObj )
        => /\ pResult = "returned"
           /\ pObj[p] = Catalogue(pArgs["catalogue"])[pArgs["name"]][p]

\* C4: after set_properties(obj, catalogue=catalogue, name=k), with k an entry
\* of the catalogue, obj.name is k and every other property of the object that
\* the header names holds the value of row k.
C4_SelectedByName ==
    ( /\ pResult # "not called"
      /\ DOMAIN pArgs = {"catalogue", "name"}
      /\ pArgs["name"] \in DOMAIN Catalogue(pArgs["catalogue"]) )
    => /\ pObj["name"] = pArgs["name"]
       /\ \A p \in DOMAIN Catalogue(pArgs["catalogue"])[pArgs["name"]] \cap DOMAIN pObj :
              pObj[p] = Catalogue(pArgs["catalogue"])[pArgs["name"]][p]

(***************************************************************************)
(* The constructors on their own: Material, Target and Simulation built    *)
(* from names, from direct field values and from instances built before.   *)
(***************************************************************************)

\* Field values a caller passes directly (None: the field is not passed).
FieldValues == {None, "1.0"}

NewMaterialCall ==
    \E name \in {None, "Ice", "Unobtainium"}, K1 \in FieldValues, rest \in FieldValues :
        LET r == NewMaterial(name, K1, rest, rest, rest)
        IN  /\ cCall' = [cls |-> "Material", name |-> name,
                         fields |-> <<K1, rest, rest, rest>>]
            /\ cResult' = IF r.raised = "none" THEN "constructed" ELSE r.raised
            /\ cMaterial' = IF r.raised = "none" THEN r.obj ELSE cMaterial
            /\ UNCHANGED <<cTarget, cTargetMat, cSimTarget, cSimMat, pvars, svars>>

\* The Material arguments a caller can pass: nothing, None, or the instance held.
MaterialArgs ==
    {ArgAbsent, ArgNone}
    \cup (IF cMaterial = NoObject THEN {} ELSE {ArgMaterial(cMaterial)})

NewTargetCall ==
    \E name \in {None, "Moon", "Planet X"}, rad \in FieldValues,
       gravity \in FieldValues, material \in MaterialArgs :
        LET r == NewTarget(name, rad, gravity, material)
        IN  /\ cCall' = [cls |-> "Target", name |-> name,
                         fields |-> <<rad, gravity, material.kind>>]
            /\ cResult' = IF r.raised = "none" THEN "constructed" ELSE r.raised
            /\ cTarget' = IF r.raised = "none" THEN r.obj ELSE cTarget
            /\ cTargetMat' = IF r.raised = "none" THEN r.material ELSE cTargetMat
            /\ UNCHANGED <<cMaterial, cSimTarget, cSimMat, pvars, svars>>

NewSimulationCall ==
    \E target \in {ArgNone, ArgName("Moon"), ArgName("Planet X"), ArgWrongType}
                  \cup (IF cTarget = NoObject THEN {}
                        ELSE {ArgTarget(cTarget, cTargetMat)}),
       material \in {ArgNone, ArgName("Ice"), ArgName("Unobtainium"), ArgWrongType}
                    \cup (IF cMaterial = NoObject THEN {}
                          ELSE {ArgMaterial(cMaterial)}) :
        LET r == NewSimulation(target, material)
        IN  /\ cCall' = [cls |-> "Simulation",
                         name |-> IF target.kind = "str" THEN target.name ELSE None,
                         fields |-> <<target.kind, material.kind,
                                      IF material.kind = "str"
                                      THEN material.name ELSE None>>]
            /\ cResult' = IF r.raised = "none" THEN "constructed" ELSE r.raised
            /\ cSimTarget' = IF r.raised = "none" THEN r.obj ELSE cSimTarget
            /\ cSimMat' = IF r.raised = "none" THEN r.material ELSE cSimMat
            \* target.material = material also changes the caller's instance
            /\ cTargetMat' = IF r.raised = "none" /\ target.kind = "instance"
                             THEN r.material ELSE cTargetMat
            /\ UNCHANGED <<cMaterial, cTarget, pvars, svars>>

NextCtor == NewMaterialCall \/ NewTargetCall \/ NewSimulationCall

InitConstruction == InitResolver /\ InitCtor /\ IdleSim

SpecCtor == InitConstruction /\ [][NextCtor]_vars

(***************************************************************************)
(* Claims about construction                                               *)
(***************************************************************************)

\* The last constructor call names a material that the built-in catalogue
\* does not have.
UnknownMaterialName ==
    \/ /\ cCall.cls = "Material"
       /\ Truthy(cCall.name)
       /\ cCall.name \notin DOMAIN Catalogue("material_catalogue")
    \/ /\ cCall.cls = "Simulation"
       /\ cCall.fields[2] = "str"
       /\ cCall.fields[3] \notin DOMAIN Catalogue("material_catalogue")

\* The last constructor call names a target that the built-in catalogue does
\* not have.
UnknownTargetName ==
    /\ cCall.cls \in {"Target", "Simulation"}
    /\ Truthy(cCall.name)
    /\ cCall.name \notin DOMAIN Catalogue("body_catalogue")

\* No field of the Simulation's target or of its material is unset.
SimulationResolved ==
    cSimTarget # NoObject =>
        /\ \A a \in {"radius", "gravity"} : cSimTarget[a] # None
        /\ \A a \in {"K1", "mu", "Ybar", "density"} : cSimMat[a] # None

\* C5: a Simulation, Target or Material constructed with a target or material
\* name that the built-in catalogue does not have raises ValueError, and no
\* Simulation exists whose target radius, gravity or material constants are
\* unset.
C5_UnknownNameRaises ==
    /\ (UnknownMaterialName \/ UnknownTargetName) => cResult = "ValueError"
    /\ SimulationResolved

(***************************************************************************)
(* The Simulation in use: apply_noise, emplace_crater and draws from the   *)
(* generator, in any order.                                                *)
(***************************************************************************)

InitSimulation == InitResolver /\ InitCtor /\ InitSim

\* The arguments of an apply_noise call.
NoiseCall(model, noise_width, noise_height, kwargs) ==
    [model |-> model, noise_width |-> noise_width, noise_height |-> noise_height,
     kwargs |-> kwargs]

\* What decides the noise of a call: its arguments, with the anchor in use,
\* and the grid coordinates.
NoiseKey(call, ev, coords) ==
    [model |-> call.model, noise_width |-> call.noise_width,
     noise_height |-> call.noise_height,
     kwargs |-> DelKey(call.kwargs, "anchor"),
     anchor |-> IF "anchor" \in DOMAIN call.kwargs
                THEN call.kwargs["anchor"] ELSE ev.anchor,
     coords |-> coords]

\* apply_noise(model, noise_width, noise_height, **kwargs), with ev what the
\* evaluator is called with and delta the noise in metres; mark: the call is
\* the one remembered in memo.
ApplyNoiseStep(call, ev, delta, mark) ==
    /\ elevation' = AddNoise(elevation, delta)
    /\ rng' = RngAfterNoise(rng, call.kwargs)
    /\ nOps' = nOps + 1
    /\ op' = [kind |-> "apply_noise", call |-> call, eval |-> ev,
              key |-> NoiseKey(call, ev, grid),
              change |-> [n \in Nodes |-> elevation'[n] - elevation[n]],
              rng |-> rng, raised |-> "none"]
    /\ hist' = [hist EXCEPT !.sum = [n \in Nodes |-> @[n] + delta[n]]]
    /\ memo' = IF mark
               THEN [set |-> TRUE, key |-> op'.key, change |-> op'.change,
                     at |-> nOps']
               ELSE memo
    /\ UNCHANGED <<radius, grid, crater_distance, crater_bearing, crater,
                   projectile, pvars, cvars>>

ApplyNoiseCall(call, ev, mark) ==
    ApplyNoiseStep(call, ev, NoiseDelta(ev, grid, radius), mark)

\* apply_noise called with a few models and anchors, any call remembered.
ApplyNoise ==
    /\ nOps < MaxOps
    /\ \E model \in {"turbulence", "swiss"},
          kwargs \in {EmptyDict, [anchor |-> UserAnchor(1)]},
          mark \in IF memo.set THEN {FALSE} ELSE BOOLEAN :
           ApplyNoiseCall(NoiseCall(model, DefaultNoiseWidth, DefaultNoiseHeight, kwargs),
                          EvaluatorCall(model, DefaultNoiseWidth, DefaultNoiseHeight,
                                        kwargs, radius, rng),
                          mark)

\* The keyword dict of an emplace_crater call.
BodyKwargs(diameter, location) ==
    IF location = 0
    THEN [diameter |-> diameter]
    ELSE [diameter |-> diameter, location |-> location]

\* emplace_crater returns: the pair and the fields are assigned.
EmplaceReturns(from_projectile, kwargs, r) ==
    /\ crater' = r.crater
    /\ projectile' = r.projectile
    /\ crater_distance' = r.crater_distance
    /\ crater_bearing' = r.crater_bearing
    /\ rng' = RngAfterBody(kwargs, rng)
    /\ op' = [kind |-> "emplace_crater", from_projectile |-> from_projectile,
              kwargs |-> kwargs, rng |-> rng, raised |-> "none"]

\* emplace_crater raises in the constructor of the Crater or Projectile.
EmplaceRaises(from_projectile, kwargs) ==
    /\ op' = [kind |-> "emplace_crater", from_projectile |-> from_projectile,
              kwargs |-> kwargs, rng |-> rng, raised |-> "ValueError"]
    /\ UNCHANGED <<crater, projectile, crater_distance, crater_bearing, rng>>

\* emplace_crater(from_projectile, diameter=, location=); location 0: not passed.
EmplaceCrater ==
    /\ nOps < MaxOps
    /\ \E from_projectile \in BOOLEAN, diameter \in {0, 1}, location \in {0, 1} :
           IF InvalidBody(BodyKwargs(diameter, location))
           THEN EmplaceRaises(from_projectile, BodyKwargs(diameter, location))
           ELSE EmplaceReturns(from_projectile, BodyKwargs(diameter, location),
                               emplace_crater(from_projectile,
                                              BodyKwargs(diameter, location),
                                              rng, radius))
    /\ nOps' = nOps + 1
    /\ UNCHANGED <<radius, grid, elevation, hist, memo, pvars, cvars>>

\* The caller draws a value from self.rng.
DrawRandom ==
    /\ nOps < MaxOps
    /\ rng' = rng + 1
    /\ nOps' = nOps + 1
    /\ op' = [kind |-> "draw"]
    /\ UNCHANGED <<radius, grid, elevation, crater_distance, crater_bearing, crater,
                   projectile, hist, memo, pvars, cvars>>

Next == ApplyNoise \/ EmplaceCrater \/ DrawRandom

Spec == InitSimulation /\ [][Next]_vars

(***************************************************************************)
(* apply_noise on its own, with every model and every keyword.             *)
(***************************************************************************)

\* The keywords apply_noise has defaults for, besides noise_height.
ModelKeywords ==
    {"freq", "pers", "slope", "lacunarity", "gain", "warp",
     "gain0", "warp0", "damp0", "damp", "damp_scale"}

\* The keyword dicts of the calls: nothing, one keyword (one the evaluator
\* knows, or another), the number of octaves, an anchor.
NoiseKwargs ==
    {EmptyDict}
    \cup {[k \in {key} |-> Num(3)] : key \in ModelKeywords \cup {"extra"}}
    \cup {[num_octaves |-> 2], [anchor |-> UserAnchor(1)],
          [anchor |-> UserAnchor(1), freq |-> Num(3)]}

ApplyNoiseAny ==
    /\ nOps < MaxNoiseCalls
    /\ \E model \in NoiseModels,
          noise_width \in {DefaultNoiseWidth, 2},
          noise_height \in {DefaultNoiseHeight, 3},
          kwargs \in NoiseKwargs :
           ApplyNoiseCall(NoiseCall(model, noise_width, noise_height, kwargs),
                          EvaluatorCall(model, noise_width, noise_height, kwargs,
                                        radius, rng),
                          FALSE)

NextNoise == ApplyNoiseAny

SpecNoise == InitSimulation /\ [][NextNoise]_vars

(***************************************************************************)
(* emplace_crater, apply_noise and to_json as functions of the Simulation, *)
(* with every outcome of the Surface's queries.                            *)
(***************************************************************************)

\* The attributes of the Simulation that the operations read and write.
Self ==
    [radius |-> radius, grid |-> grid, elevation |-> elevation,
     crater_distance |-> crater_distance, crater_bearing |-> crater_bearing,
     crater |-> crater, projectile |-> projectile, rng |-> rng]

\* The Surface query of emplace_crater that raises ("none": none does).
SurfaceSteps == {"none", "distance", "bearing", "normal"}

\* A variant that adds the new values to the field.
SetField_Accumulates(old, new) ==
    [n \in DOMAIN new |-> (IF n \in DOMAIN old THEN old[n] ELSE 0) + new[n]]

\* self.surf[name] = new
SetField(old, new) == new

\* Lines 225-232 given the pair that generate_crater or generate_projectile
\* returned and the values r of the Surface's queries: self.crater and
\* self.projectile are assigned first, then each field as its query returns;
\* the query named by fails raises and the statements after it do not run.
EmplaceUpTo(self, pair, r, fails) ==
    [self EXCEPT
       !.crater = IF fails = "none" THEN r.crater ELSE pair.crater,
       !.projectile = pair.projectile,
       !.crater_distance = IF fails = "distance"
                           THEN @ ELSE SetField(@, r.crater_distance),
       !.crater_bearing = IF fails \in {"distance", "bearing"}
                          THEN @ ELSE SetField(@, r.crater_bearing)]

\* emplace_crater once the pair is made.
EmplaceWith(self, kwargs, pair, fails) ==
    EmplaceUpTo([self EXCEPT !.rng = RngAfterBody(kwargs, @)],
                pair, Emplace(pair, self.radius), fails)

\* emplace_crater(from_projectile, **kwargs) on the Simulation self: the
\* Simulation afterwards.  A constructor that raises leaves it as it was.
EmplaceOn(self, from_projectile, kwargs, fails) ==
    IF InvalidBody(kwargs)
    THEN self
    ELSE EmplaceWith(self, kwargs, GeneratePair(from_projectile, kwargs, self.rng), fails)

\* The exception emplace_crater raises ("none": it returns).
EmplaceRaised(kwargs, fails) ==
    IF InvalidBody(kwargs) THEN "ValueError"
    ELSE IF fails = "none" THEN "none" ELSE "GeometryError"

\* A variant that makes the surface anew before the noise is added.
apply_noise_ResetsFields(self, call) ==
    [self EXCEPT
       !.elevation = AddNoise(@, NoiseDelta(EvaluatorCall(call.model, call.noise_width,
                                                          call.noise_height, call.kwargs,
                                                          self.radius, self.rng),
                                            self.grid, self.radius)),
       !.rng = RngAfterNoise(@, call.kwargs),
       !.crater_distance = EmptyDict,
       !.crater_bearing = EmptyDict]

\* apply_noise(model, noise_width, noise_height, **kwargs) on the Simulation
\* self: the Simulation afterwards.
apply_noise(self, call) ==
    [self EXCEPT
       !.elevation = AddNoise(@, NoiseDelta(EvaluatorCall(call.model, call.noise_width,
                                                          call.noise_height, call.kwargs,
                                                          self.radius, self.rng),
                                            self.grid, self.radius)),
       !.rng = RngAfterNoise(@, call.kwargs)]

\* The types of the values to_config keeps.
Serializable == {"int", "float", "str", "list", "dict", "bool", "NoneType"}

\* to_config(obj): the attributes of obj.__dict__ whose value has a type kept
\* and whose name is not in config_ignore.  An object is its __dict__, as the
\* type of each attribute's value, and its class's config_ignore.
to_config(obj) ==
    [k \in {a \in DOMAIN obj.dict : obj.dict[a] \in Serializable
                                    /\ a \notin obj.config_ignore} |-> obj.dict[k]]

\* self.__dict__ after Simulation.__init__.
SimulationAttributes ==
    Put(Put([simdir |-> "str", target |-> "Target", pix |-> "float",
             surf |-> "Surface", time_function |-> "NoneType",
             tstart |-> "float", tstop |-> "float", impactor_sfd |-> "NoneType",
             impactor_velocity |-> "NoneType", seed |-> "NoneType",
             rng |-> "Generator"],
            "_crater", "NoneType"),
        "_projectile", "NoneType")

\* self.__dict__ once emplace_crater has assigned self.crater, self.projectile.
SimulationAttributesEmplaced ==
    Put(Put(SimulationAttributes, "crater", "Crater"), "projectile", "Projectile")

\* The Simulation as to_config sees it; the class has no config_ignore.
SimulationObject(self) ==
    [dict |-> IF DOMAIN self.crater = {}
              THEN SimulationAttributes ELSE SimulationAttributesEmplaced,
     config_ignore |-> {}]

\* self.target as to_config sees it.
TargetObject ==
    [dict |-> [name |-> "str", radius |-> "float", gravity |-> "float",
               material |-> "Material", catalogue |-> "dict"],
     config_ignore |-> {"catalogue", "material"}]

\* self.target.material as to_config sees it.
MaterialObject ==
    [dict |-> [name |-> "str", K1 |-> "float", mu |-> "float", Ybar |-> "float",
               density |-> "float", catalogue |-> "dict"],
     config_ignore |-> {"catalogue"}]

\* to_json(filename): the document written, sim_config.
to_json(self) ==
    Put(to_config(SimulationObject(self)),
        "target",
        Put(to_config(TargetObject), "material", to_config(MaterialObject)))

\* The number of operations called in the model of this section.
MaxCalls == 2

\* The Simulation becomes t.
SetSelf(t) ==
    /\ radius' = t.radius
    /\ grid' = t.grid
    /\ elevation' = t.elevation
    /\ crater_distance' = t.crater_distance
    /\ crater_bearing' = t.crater_bearing
    /\ crater' = t.crater
    /\ projectile' = t.projectile
    /\ rng' = t.rng

\* The crater that the call generates (none when the constructor raises).
GeneratedCrater(from_projectile, kwargs) ==
    IF InvalidBody(kwargs)
    THEN NoObject
    ELSE GeneratePair(from_projectile, kwargs, rng).crater

\* emplace_crater(from_projectile, **kwargs) where the Surface query named by
\* fails raises; a call that returns may be remembered.
EmplaceCall(from_projectile, kwargs, fails, mark) ==
    /\ SetSelf(EmplaceOn(Self, from_projectile, kwargs, fails))
    /\ nOps' = nOps + 1
    /\ op' = [kind |-> "emplace_crater", from_projectile |-> from_projectile,
              kwargs |-> kwargs, rng |-> rng, fails |-> fails, before |-> Self,
              generated |-> GeneratedCrater(from_projectile, kwargs),
              raised |-> EmplaceRaised(kwargs, fails)]
    /\ memo' = IF mark
               THEN [set |-> TRUE, at |-> nOps', crater |-> op'.generated,
                     crater_distance |-> crater_distance',
                     crater_bearing |-> crater_bearing',
                     average_surface_normal_vector |->
                         crater'.average_surface_normal_vector]
               ELSE memo
    /\ UNCHANGED <<hist, pvars, cvars>>

\* emplace_crater(from_projectile, diameter=, location=) with every outcome;
\* location 0: not passed.
EmplaceCraterAny ==
    /\ nOps < MaxCalls
    /\ \E from_projectile \in BOOLEAN, diameter \in {0, 1, 20}, location \in {0, 1} :
         \E fails \in IF diameter <= 0 THEN {"none"} ELSE SurfaceSteps :
           \E mark \in IF diameter > 0 /\ fails = "none" /\ ~memo.set
                       THEN BOOLEAN ELSE {FALSE} :
              EmplaceCall(from_projectile, BodyKwargs(diameter, location), fails, mark)

\* apply_noise(model, **kwargs) with the default width and height.
ApplyNoiseOn(call) ==
    /\ SetSelf(apply_noise(Self, call))
    /\ nOps' = nOps + 1
    /\ op' = [kind |-> "apply_noise", call |-> call, before |-> Self,
              change |-> [n \in Nodes |-> elevation'[n] - elevation[n]],
              raised |-> "none"]
    /\ hist' = [hist EXCEPT !.sum = [n \in Nodes |-> @[n] + op'.change[n]]]
    /\ UNCHANGED <<memo, pvars, cvars>>

ApplyNoiseDefault ==
    /\ nOps < MaxCalls
    /\ \E model \in {"turbulence", "jordan"} :
           ApplyNoiseOn(NoiseCall(model, DefaultNoiseWidth, DefaultNoiseHeight, EmptyDict))

\* to_json(filename): the document is written, the Simulation is as it was.
WriteJson ==
    /\ nOps < MaxCalls
    /\ nOps' = nOps + 1
    /\ op' = [kind |-> "to_json", document |-> to_json(Self), raised |-> "none"]
    /\ UNCHANGED <<radius, grid, elevation, crater_distance, crater_bearing, crater,
                   projectile, rng, hist, memo, pvars, cvars>>

NextEmplace == EmplaceCraterAny \/ ApplyNoiseDefault \/ WriteJson

SpecEmplace == InitSimulation /\ [][NextEmplace]_vars

(***************************************************************************)
(* Claims about apply_noise and emplace_crater                             *)
(***************************************************************************)

\* C6: the elevation is the first elevation plus the sum of the noise deltas
\* (evaluator output times target radius) of all apply_noise calls so far.
C6_NoiseAdditive ==
    elevation = [n \in Nodes |-> hist.first[n] + hist.sum[n]]

\* C6 witness: an apply_noise call with a nonzero delta, on an elevation that
\* was not zero at first, after an earlier call with a nonzero delta.
C6_Witness ==
    /\ op.kind = "apply_noise"
    /\ \E n \in Nodes : op.change[n] # 0
    /\ \E n \in Nodes : hist.sum[n] # op.change[n]
    /\ \E n \in Nodes : hist.first[n] # 0

\* The models whose defaults include noise_height.
HeightModels == {"turbulence", "billowed", "ridged", "plaw"}

\* C7 as stated: for every model, apply_noise with noise_height = H on a
\* target of radius R passes noise_height = H/R to the evaluator.
C7_EveryModelHeightNormalized ==
    op.kind = "apply_noise" =>
        /\ "noise_height" \in DOMAIN op.eval.kwargs
        /\ op.eval.kwargs["noise_height"] = Frac(op.call.noise_height, radius)

\* C7 amended: for turbulence, billowed, ridged and plaw the evaluator receives
\* noise_height = H/R; for swiss and jordan it receives no noise_height.
C7_HeightNormalized ==
    op.kind = "apply_noise" =>
        IF op.call.model \in HeightModels
        THEN /\ "noise_height" \in DOMAIN op.eval.kwargs
             /\ op.eval.kwargs["noise_height"] = Frac(op.call.noise_height, radius)
        ELSE "noise_height" \notin DOMAIN op.eval.kwargs

\* C7 witness: plaw with H = 3 on a target of radius 2 passes 3/2.
C7_Witness ==
    /\ op.kind = "apply_noise"
    /\ op.call.model = "plaw"
    /\ op.call.noise_height = 3
    /\ radius = 2
    /\ op.eval.kwargs["noise_height"] = <<3, 2>>

\* C8: an apply_noise call with the model, parameters, anchor and grid
\* coordinates of an earlier call changes the elevation by the same delta,
\* whatever was called in between.
C8_NoiseDeterministic ==
    (memo.set /\ op.kind = "apply_noise" /\ op.key = memo.key) =>
        op.change = memo.change

\* C8 witness: the first and the third operation are the same apply_noise
\* call with a caller's anchor and a nonzero delta, with another operation
\* in between.
C8_Witness ==
    /\ memo.set
    /\ memo.at = 1
    /\ nOps = 3
    /\ op.kind = "apply_noise"
    /\ op.key = memo.key
    /\ "anchor" \in DOMAIN op.call.kwargs
    /\ \E n \in Nodes : op.change[n] # 0

\* The table of the models' parameters.
TableKeys(model) ==
    CASE model \in {"turbulence", "billowed", "ridged"} -> {"noise_height", "freq", "pers"}
      [] model = "plaw"   -> {"noise_height", "freq", "pers", "slope"}
      [] model = "swiss"  -> {"lacunarity", "gain", "warp"}
      [] model = "jordan" -> {"lacunarity", "gain", "warp",
                              "gain0", "warp0", "damp0", "damp", "damp_scale"}

\* The table's defaults (noise_height: 20e3 m, the default of the argument).
TableDefault(k) ==
    CASE k = "freq" -> <<2, 1>>        [] k = "pers" -> <<1, 2>>
      [] k = "slope" -> <<2, 1>>       [] k = "lacunarity" -> <<48, 25>>
      [] k = "gain" -> <<1, 2>>        [] k = "warp" -> <<7, 20>>
      [] k = "gain0" -> <<70, 1>>      [] k = "warp0" -> <<2, 5>>
      [] k = "damp0" -> <<1, 1>>       [] k = "damp" -> <<4, 5>>
      [] k = "damp_scale" -> <<1, 100>>

\* The keywords of the last call that go on to the evaluator as keywords.
CallerKeywords == DOMAIN op.call.kwargs \ {"anchor", "num_octaves"}

\* The evaluator's keywords are the table's for the model plus the caller's
\* other keywords, num_octaves is the caller's or 12, and every table
\* parameter but noise_height is the caller's value or the table's default.
TableParametersPassed ==
    /\ DOMAIN op.eval.kwargs = TableKeys(op.call.model) \cup CallerKeywords
    /\ op.eval.num_octaves = IF "num_octaves" \in DOMAIN op.call.kwargs
                             THEN op.call.kwargs["num_octaves"] ELSE 12
    /\ \A k \in TableKeys(op.call.model) \ {"noise_height"} :
           op.eval.kwargs[k] = IF k \in DOMAIN op.call.kwargs
                               THEN op.call.kwargs[k] ELSE TableDefault(k)

\* C9 as stated: as above, and noise_height too is passed with the caller's
\* value (20e3 when the caller gives none).
C9_TableParametersAsGiven ==
    op.kind = "apply_noise" =>
        /\ TableParametersPassed
        /\ "noise_height" \in TableKeys(op.call.model) =>
               op.eval.kwargs["noise_height"] = Num(op.call.noise_height)

\* C9 amended: as above, but noise_height is passed as the caller's value
\* (20e3 when the caller gives none) divided by the target radius.
C9_TableParameters ==
    op.kind = "apply_noise" =>
        /\ TableParametersPassed
        /\ "noise_height" \in TableKeys(op.call.model) =>
               op.eval.kwargs["noise_height"] = Frac(op.call.noise_height, radius)

\* C9 witness: jordan called with gain0 = 3 passes the caller's gain0 and the
\* defaults of the seven other parameters.
C9_Witness ==
    /\ op.kind = "apply_noise"
    /\ op.call.model = "jordan"
    /\ op.call.kwargs = [gain0 |-> <<3, 1>>]
    /\ op.eval.kwargs = [lacunarity |-> <<48, 25>>, gain |-> <<1, 2>>,
                         warp |-> <<7, 20>>, gain0 |-> <<3, 1>>, warp0 |-> <<2, 5>>,
                         damp0 |-> <<1, 1>>, damp |-> <<4, 5>>,
                         damp_scale |-> <<1, 100>>]
    /\ op.eval.num_octaves = 12

\* The crater without the fields emplacement fills in.
AsScaled(c) == [c EXCEPT !.average_surface_normal_vector = NoVector]

\* C10: after an emplace_crater call that returned, the crater and the
\* projectile are the pair of one scaling-law call in the direction selected
\* (the projectile is built from the keywords and the crater scaled from it
\* when from_projectile, the other way round otherwise), and crater_distance,
\* crater_bearing and the crater's average normal are those of that crater's
\* location.
C10_EmplacedPair ==
    (op.kind = "emplace_crater" /\ op.raised = "none") =>
        /\ IF op.from_projectile
           THEN /\ projectile = NewProjectile(op.kwargs, op.rng)
                /\ AsScaled(crater) = projectile_to_crater(projectile)
           ELSE /\ AsScaled(crater) = NewCrater(op.kwargs, op.rng)
                /\ projectile = crater_to_projectile(AsScaled(crater))
        /\ crater_distance = get_cell_distance(crater.location, radius)
        /\ crater_bearing = get_cell_initial_bearing(crater.location)
        /\ crater.average_surface_normal_vector =
               get_average_surface(crater.location, crater.radius)

\* C10 witness: a second emplacement, from a projectile of diameter 1 at a
\* location drawn from the generator, after one from a crater.
C10_Witness ==
    /\ op.kind = "emplace_crater"
    /\ op.raised = "none"
    /\ op.from_projectile
    /\ "location" \notin DOMAIN op.kwargs
    /\ nOps >= 2
    /\ projectile.diameter = <<1, 1>>
    /\ crater.diameter = <<3, 1>>
    /\ crater_distance[crater.location] = 0
    /\ crater.average_surface_normal_vector # NoVector

\* C11 as stated: an emplace_crater call that raises, at whatever step,
\* leaves self.crater, self.projectile, crater_distance and crater_bearing
\* with the values they had before the call.
C11_NoPartialWrites ==
    (op.kind = "emplace_crater" /\ op.raised # "none") =>
        /\ crater = op.before.crater
        /\ projectile = op.before.projectile
        /\ crater_distance = op.before.crater_distance
        /\ crater_bearing = op.before.crater_bearing

\* The crater's radius is larger than half the great-circle circumference of
\* the target, pi times its radius (pi as 355/113).
ExceedsHalfCircumference(c, target_radius) ==
    c.radius[1] * 113 > 355 * target_radius * c.radius[2]

\* C12 as stated: an emplace_crater call for a crater larger than half the
\* circumference raises a Geometry error, and no such crater is ever
\* self.crater with its distance and bearing fields written.
C12_OversizeRejected ==
    /\ (/\ op.kind = "emplace_crater"
        /\ DOMAIN op.generated # {}
        /\ ExceedsHalfCircumference(op.generated, radius))
       => op.raised = "GeometryError"
    /\ ~ (/\ DOMAIN crater # {}
          /\ ExceedsHalfCircumference(crater, radius)
          /\ crater_distance = get_cell_distance(crater.location, radius)
          /\ crater_bearing = get_cell_initial_bearing(crater.location))

\* C13: an emplace_crater call that returns for the crater and location of a
\* remembered earlier call leaves crater_distance, crater_bearing and the
\* crater's average normal as the earlier call left them, whatever the
\* fields held before.
C13_EmplaceIdempotent ==
    (/\ memo.set
     /\ op.kind = "emplace_crater"
     /\ op.raised = "none"
     /\ op.generated = memo.crater)
    => /\ crater_distance = memo.crater_distance
       /\ crater_bearing = memo.crater_bearing
       /\ crater.average_surface_normal_vector = memo.average_surface_normal_vector

\* C13 witness: the second call passes the location that the first, remembered
\* call drew, for the same crater, onto fields that the first call wrote.
C13_Witness ==
    /\ memo.set
    /\ memo.at = 1
    /\ nOps = 2
    /\ op.kind = "emplace_crater"
    /\ op.raised = "none"
    /\ op.generated = memo.crater
    /\ "location" \in DOMAIN op.kwargs
    /\ op.rng = 2
    /\ DOMAIN op.before.crater_distance # {}
    /\ \E n \in Nodes : crater_distance[n] # 0

\* The keys of the transient objects.
TransientKeys == {"crater", "projectile", "catalogue", "_crater", "_projectile"}

\* C14 as stated: the document to_json writes has, for the simulation, its
\* target and the target's material, no key of a transient crater, projectile
\* or catalogue and no key of the object's config_ignore (the key material
\* that holds the nested material document apart).
C14_OnlyConfiguration ==
    op.kind = "to_json" =>
        /\ DOMAIN op.document
              \cap (TransientKeys \cup SimulationObject(Self).config_ignore) = {}
        /\ (DOMAIN op.document["target"] \ {"material"})
              \cap (TransientKeys \cup TargetObject.config_ignore) = {}
        /\ DOMAIN op.document["target"]["material"]
              \cap (TransientKeys \cup MaterialObject.config_ignore) = {}

\* C15: emplace_crater, returning or raising, leaves the elevation and the
\* grid coordinates as they were; apply_noise leaves crater_distance,
\* crater_bearing, the grid coordinates, self.crater, self.projectile and the
\* target as they were.
C15_Frame ==
    /\ op.kind = "emplace_crater" =>
           /\ elevation = op.before.elevation
           /\ grid = op.before.grid
    /\ op.kind = "apply_noise" =>
           /\ crater_distance = op.before.crater_distance
           /\ crater_bearing = op.before.crater_bearing
           /\ grid = op.before.grid
           /\ crater = op.before.crater
           /\ projectile = op.before.projectile
           /\ radius = op.before.radius

\* C15 witness: apply_noise changes the elevation of a Simulation that holds
\* an emplaced crater and its fields.
C15_Witness ==
    /\ op.kind = "apply_noise"
    /\ \E n \in Nodes : op.change[n] # 0
    /\ DOMAIN crater # {}
    /\ DOMAIN crater_distance # {}
    /\ \E n \in Nodes : crater_distance[n] # 0

\* C16 as stated: apply_noise uses the caller's anchor and leaves the
\* generator as it was when an anchor is supplied, and draws the anchor
\* (num_octaves times 3 values) from the generator when none is supplied.
C16_AnchorDrawnIffAbsent ==
    op.kind = "apply_noise" =>
        IF "anchor" \in DOMAIN op.call.kwargs
        THEN /\ op.eval.anchor = op.call.kwargs["anchor"]
             /\ rng = op.rng
        ELSE /\ op.eval.anchor = Uniform(op.rng, op.eval.scale, op.eval.num_octaves)
             /\ rng = op.rng + 3 * op.eval.num_octaves

====
